---- MODULE Spec2Model ----
(***************************************************************************)
(* Model of daaku/caddy-client-proxy (src/cp.go): the Middleware with its  *)
(* atomic handler slot, the registering call acceptProxy, the dispatch in  *)
(* ServeHTTP and the bufConn connection decorator.                         *)
(***************************************************************************)
EXTENDS Integers, Sequences, FiniteSets, TLC

\* ------------------------------------------------------------------ bounds
\* Number of inbound requests (one goroutine each) the model lets arrive.
NumReq == 3
\* Number of requests that arrive in the runs checked under fairness.
NumFair == 2
\* Longest carried-over buffer / connection stream / read buffer of bufConn.
MaxLen == 2

Reqs == 1..NumReq
\* The atomic.Value holds no *handler yet.
None == 0
\* The handler created by request r is identified by r.
Handlers == Reqs

Secrets == {"", "s"}
Headers == {"", "s", "x"}
Bytes == {1, 2}

NextResults == {"nil", "errNext"}
ShutdownOutcomes == {"ok", "errClosed", "timeout", "errOther"}
ForwardResults == {"ok", "error", "refused", "aborted"}

VARIABLES
    Secret,     \* Middleware.Secret
    validated,  \* "pending" | "ok" | "error": result of Validate at start-up
    slot,       \* Middleware.handler: None or the stored handler
    closeCalls, \* per handler: number of close(handler.done) calls executed
    stores,     \* the handlers in the order their Store calls took effect
    pc,         \* per request: position of its goroutine
    hdr,        \* per request: value of the X-Client-Proxy header
    loaded,     \* per request: the handler its Load returned, while in scope
    hijacked,   \* per request: rc.Hijack() succeeded
    connClosed, \* per request: conn.Close() has run on the hijacked connection
    shut,       \* per request: outcome of h2conn.Shutdown, "none" before
    ret,        \* per request: value returned by ServeHTTP, "pending" before
    nextCalls,  \* per request: number of next.ServeHTTP calls
    proxied,    \* per request: handler whose proxy served it, None if none
    nextRes,    \* per request: what next.ServeHTTP returned, "none" before
    drains,     \* per request: its Shutdown comes back before the deadline
    dead,       \* per handler: its transport's connection has failed
    fwdRes,     \* per request: how its forward over the proxy ended, "none" before
    loadedActive, \* per request: the handler its Load returned was not yet signaled
    bc,         \* the connection handed to the transport builder (bufConn or raw)
    input,      \* the bytes buffered before the hijack (B) and the stream after (S)
    out,        \* concatenation of the bytes returned by Read so far
    lastRead    \* what the last Read returned and where it came from

reqVars == <<Secret, validated, slot, closeCalls, stores, pc, hdr, loaded,
             hijacked, connClosed, shut, ret, nextCalls, proxied, nextRes, drains,
             dead, fwdRes, loadedActive>>
bufVars == <<bc, input, out, lastRead>>
vars == <<Secret, validated, slot, closeCalls, stores, pc, hdr, loaded,
          hijacked, connClosed, shut, ret, nextCalls, proxied, nextRes, drains,
          dead, fwdRes, loadedActive, bc, input, out, lastRead>>

Min(a, b) == IF a < b THEN a ELSE b

SeqsUpTo(S, n) == UNION {[1..k -> S] : k \in 0..n}

\* ------------------------------------------------------------- bufConn
\* acceptProxy lines 81-83: the connection is wrapped only when the hijacked
\* bufio.Reader still holds bytes.
WrapConn(B, S) ==
    [wrapped |-> Len(B) > 0, readerNil |-> FALSE, buffered |-> B, conn |-> S]

\* net.Conn.Read(p) with len(p) = n returning k bytes of the stream.
ConnRead(c, n, k) ==
    [c    |-> [c EXCEPT !.conn = SubSeq(c.conn, k + 1, Len(c.conn))],
     data |-> SubSeq(c.conn, 1, k),
     src  |-> "conn"]

\* The sizes a net.Conn.Read(p) with len(p) = n may return: a short read of at
\* least one byte, or nothing for an empty p or an exhausted stream.
ConnReadSizes(c, n) ==
    IF n = 0 \/ Len(c.conn) = 0 THEN {0} ELSE 1..Min(n, Len(c.conn))

\* bufio.Reader.Read(p) with data buffered: copies min(len(p), Buffered()).
ReaderRead(c, n) ==
    LET take == Min(n, Len(c.buffered)) IN
    [c    |-> [c EXCEPT !.buffered = SubSeq(c.buffered, take + 1, Len(c.buffered))],
     data |-> SubSeq(c.buffered, 1, take),
     src  |-> "buf"]

\* Variant of bufConnRead that ignores the carried-over buffer.
bufConnReadDirect(c, n, k) == ConnRead(c, n, k)

\* bufConn.Read(p), len(p) = n; k is the size the underlying Conn.Read returns
\* should the call reach it.
bufConnRead(c, n, k) ==
    IF c.readerNil
    THEN ConnRead(c, n, k)
    ELSE IF Len(c.buffered) = 0
         THEN ConnRead([c EXCEPT !.readerNil = TRUE], n, k)
         ELSE ReaderRead(c, IF Len(c.buffered) < n THEN Len(c.buffered) ELSE n)

\* The Read the transport builder performs on the connection it was given.
Read(n) ==
    /\ \E k \in ConnReadSizes(bc, n) :
         LET r == IF bc.wrapped THEN bufConnRead(bc, n, k) ELSE ConnRead(bc, n, k) IN
         /\ bc' = r.c
         /\ out' = out \o r.data
         /\ lastRead' = [src |-> r.src, n |-> Len(r.data), asked |-> n,
                         directBefore |-> bc.wrapped /\ bc.readerNil]
    /\ UNCHANGED input
    /\ UNCHANGED reqVars

\* ------------------------------------------------------------ Middleware
\* Variant of Validate that accepts every secret.
ValidateAlways(s) == "ok"

\* Validate, lines 61-66.
Validate(s) == IF s = "" THEN "error" ELSE "ok"

\* The host validates the configuration before serving.
ValidateConfig ==
    /\ validated = "pending"
    /\ validated' = Validate(Secret)
    /\ UNCHANGED <<Secret, slot, closeCalls, stores, pc, hdr, loaded, hijacked,
                   connClosed, shut, ret, nextCalls, proxied>>
    /\ UNCHANGED <<drains, nextRes, dead, fwdRes, loadedActive, bufVars>>

\* Variant of IsRegistration that accepts any non-empty credential.
IsRegistrationAnyHeader(h) == h # ""

\* ServeHTTP line 119: the credential comparison.
IsRegistration(h) == h = Secret

\* ServeHTTP entry, lines 118-121: a request arrives and is dispatched.
ServeHTTP(r) ==
    /\ validated = "ok"
    /\ pc[r] = "idle"
    /\ \E h \in Headers :
         /\ hdr' = [hdr EXCEPT ![r] = h]
         /\ pc' = [pc EXCEPT ![r] = IF IsRegistration(h) THEN "duplex" ELSE "fwdLoad"]
    /\ UNCHANGED <<Secret, validated, slot, closeCalls, stores, loaded, hijacked,
                   connClosed, shut, ret, nextCalls, proxied>>
    /\ UNCHANGED <<drains, nextRes, dead, fwdRes, loadedActive, bufVars>>

\* Variant of RegEnableFullDuplex that passes a request it cannot promote on
\* to the next handler.
RegEnableFullDuplexFallThrough(r) ==
    /\ pc[r] = "duplex"
    /\ \E ok \in BOOLEAN :
         pc' = [pc EXCEPT ![r] = IF ok THEN "hijack" ELSE "next"]
    /\ UNCHANGED <<Secret, validated, slot, closeCalls, stores, hdr, loaded,
                   hijacked, connClosed, shut, ret, nextCalls, proxied>>
    /\ UNCHANGED <<drains, nextRes, dead, fwdRes, loadedActive, bufVars>>

\* acceptProxy lines 69-72: rc.EnableFullDuplex().
RegEnableFullDuplex(r) ==
    /\ pc[r] = "duplex"
    /\ \E ok \in BOOLEAN :
         IF ok
         THEN /\ pc' = [pc EXCEPT ![r] = "hijack"]
              /\ ret' = ret
         ELSE /\ pc' = [pc EXCEPT ![r] = "returned"]
              /\ ret' = [ret EXCEPT ![r] = "errDuplex"]
    /\ UNCHANGED <<Secret, validated, slot, closeCalls, stores, hdr, loaded,
                   hijacked, connClosed, shut, nextCalls, proxied>>
    /\ UNCHANGED <<drains, nextRes, dead, fwdRes, loadedActive, bufVars>>

\* acceptProxy lines 73-77: rc.Hijack(); on success the close is deferred.
RegHijack(r) ==
    /\ pc[r] = "hijack"
    /\ \E ok \in BOOLEAN :
         IF ok
         THEN /\ pc' = [pc EXCEPT ![r] = "flush"]
              /\ hijacked' = [hijacked EXCEPT ![r] = TRUE]
              /\ ret' = ret
         ELSE /\ pc' = [pc EXCEPT ![r] = "returned"]
              /\ hijacked' = hijacked
              /\ ret' = [ret EXCEPT ![r] = "errHijack"]
    /\ UNCHANGED <<Secret, validated, slot, closeCalls, stores, hdr, loaded,
                   connClosed, shut, nextCalls, proxied>>
    /\ UNCHANGED <<drains, nextRes, dead, fwdRes, loadedActive, bufVars>>

\* Variant of DeferredClose with the defer statement missing.
DeferredCloseMissing(r) == connClosed

\* The deferred conn.Close() of line 77, run on every exit after the hijack.
DeferredClose(r) == [connClosed EXCEPT ![r] = TRUE]

\* acceptProxy lines 78-80: buf.Flush().
RegFlush(r) ==
    /\ pc[r] = "flush"
    /\ \E ok \in BOOLEAN :
         IF ok
         THEN /\ pc' = [pc EXCEPT ![r] = "newconn"]
              /\ UNCHANGED <<ret, connClosed>>
         ELSE /\ pc' = [pc EXCEPT ![r] = "returned"]
              /\ ret' = [ret EXCEPT ![r] = "errFlush"]
              /\ connClosed' = DeferredClose(r)
    /\ UNCHANGED <<Secret, validated, slot, closeCalls, stores, hdr, loaded,
                   hijacked, shut, nextCalls, proxied>>
    /\ UNCHANGED <<drains, nextRes, dead, fwdRes, loadedActive, bufVars>>

\* Variant of RegNewClientConn that retires the current handler before the
\* transport is built, so that a failed build has already signaled it.
RegNewClientConnRetireFirst(r) ==
    /\ pc[r] = "newconn"
    /\ closeCalls' = IF slot # None /\ closeCalls[slot] = 0
                     THEN [closeCalls EXCEPT ![slot] = 1]
                     ELSE closeCalls
    /\ \E ok \in BOOLEAN :
         IF ok
         THEN /\ pc' = [pc EXCEPT ![r] = "store"]
              /\ UNCHANGED <<ret, connClosed>>
         ELSE /\ pc' = [pc EXCEPT ![r] = "returned"]
              /\ ret' = [ret EXCEPT ![r] = "errInit"]
              /\ connClosed' = [connClosed EXCEPT ![r] = TRUE]
    /\ UNCHANGED <<Secret, validated, slot, stores, hdr, loaded,
                   hijacked, shut, nextCalls, proxied>>
    /\ UNCHANGED <<drains, nextRes, dead, fwdRes, loadedActive, bufVars>>

\* acceptProxy lines 81-87: wrap the connection, h2t.NewClientConn(conn).
RegNewClientConn(r) ==
    /\ pc[r] = "newconn"
    /\ \E ok \in BOOLEAN :
         IF ok
         THEN /\ pc' = [pc EXCEPT ![r] = "load"]
              /\ UNCHANGED <<ret, connClosed>>
         ELSE /\ pc' = [pc EXCEPT ![r] = "returned"]
              /\ ret' = [ret EXCEPT ![r] = "errInit"]
              /\ connClosed' = DeferredClose(r)
    /\ UNCHANGED <<Secret, validated, slot, closeCalls, stores, hdr, loaded,
                   hijacked, shut, nextCalls, proxied>>
    /\ UNCHANGED <<drains, nextRes, dead, fwdRes, loadedActive, bufVars>>

\* acceptProxy line 90: m.handler.Load().
RegLoad(r) ==
    /\ pc[r] = "load"
    /\ loaded' = [loaded EXCEPT ![r] = slot]
    /\ pc' = [pc EXCEPT ![r] = IF slot # None THEN "close" ELSE "store"]
    /\ UNCHANGED <<Secret, validated, slot, closeCalls, stores, hdr, hijacked,
                   connClosed, shut, ret, nextCalls, proxied>>
    /\ UNCHANGED <<drains, nextRes, dead, fwdRes, loadedActive, bufVars>>

\* Variant of RegClose that forgets to signal the handler it loaded.
RegCloseSkip(r) ==
    /\ pc[r] = "close"
    /\ pc' = [pc EXCEPT ![r] = "store"]
    /\ loaded' = [loaded EXCEPT ![r] = None]
    /\ UNCHANGED <<Secret, validated, slot, closeCalls, stores, hdr,
                   hijacked, connClosed, shut, ret, nextCalls, proxied>>
    /\ UNCHANGED <<drains, nextRes, dead, fwdRes, loadedActive, bufVars>>

\* acceptProxy lines 91-92: close(handler.done), after which the loaded
\* handler goes out of scope. Closing a closed channel panics; the panic
\* unwinds the call, running the deferred conn.Close().
RegClose(r) ==
    /\ pc[r] = "close"
    /\ closeCalls' = [closeCalls EXCEPT ![loaded[r]] = @ + 1]
    /\ loaded' = [loaded EXCEPT ![r] = None]
    /\ IF closeCalls[loaded[r]] = 0
       THEN /\ pc' = [pc EXCEPT ![r] = "store"]
            /\ UNCHANGED <<ret, connClosed>>
       ELSE /\ pc' = [pc EXCEPT ![r] = "panicked"]
            /\ ret' = [ret EXCEPT ![r] = "panic"]
            /\ connClosed' = DeferredClose(r)
    /\ UNCHANGED <<Secret, validated, slot, stores, hdr, hijacked,
                   shut, nextCalls, proxied>>
    /\ UNCHANGED <<drains, nextRes, dead, fwdRes, loadedActive, bufVars>>

\* acceptProxy lines 94-104: m.handler.Store(&handler{done, proxy}).
RegStore(r) ==
    /\ pc[r] = "store"
    /\ slot' = r
    /\ stores' = Append(stores, r)
    /\ pc' = [pc EXCEPT ![r] = "wait"]
    /\ UNCHANGED <<Secret, validated, closeCalls, hdr, loaded, hijacked,
                   connClosed, shut, ret, nextCalls, proxied>>
    /\ UNCHANGED <<drains, nextRes, dead, fwdRes, loadedActive, bufVars>>

\* acceptProxy lines 105-108: <-done, then h2conn.Shutdown(ctx) is entered,
\* from where on the transport takes no new stream.
RegWait(r) ==
    /\ pc[r] = "wait"
    /\ closeCalls[r] >= 1
    /\ pc' = [pc EXCEPT ![r] = "shutdown"]
    /\ \E d \in BOOLEAN : drains' = [drains EXCEPT ![r] = d]
    /\ UNCHANGED <<Secret, validated, slot, closeCalls, stores, hdr, loaded,
                   hijacked, connClosed, shut, ret, nextCalls, proxied>>
    /\ UNCHANGED <<nextRes, dead, fwdRes, loadedActive, bufVars>>

\* Variant of ShutdownResult without the errors.Is(err, net.ErrClosed) test.
ShutdownResultNoErrClosed(o) == IF o = "ok" THEN "nil" ELSE "errShutdown"

\* acceptProxy lines 109-114: the result of the call for a Shutdown outcome.
ShutdownResult(o) ==
    IF o = "ok" THEN "nil"
    ELSE IF o = "errClosed" THEN "nil"
    ELSE "errShutdown"

\* What h2conn.Shutdown(ctx) can return: before the deadline, nil once the
\* streams have drained or a connection error (already closed, or another
\* one); otherwise the context's error when shutdownTimeout expires.
ShutdownReturns(d) ==
    IF d THEN ShutdownOutcomes \ {"timeout"} ELSE {"timeout"}

\* The forwards whose stream is open on handler h's transport.
OpenStreams(h) == {q \in Reqs : pc[q] = "stream" /\ loaded[q] = h}

\* Variant of RegShutdown whose context carries no deadline: the call comes
\* back only when the streams drain.
RegShutdownNoDeadline(r) ==
    /\ pc[r] = "shutdown"
    /\ drains[r]
    /\ \E o \in ShutdownReturns(drains[r]) :
         /\ o = "ok" => OpenStreams(r) = {}
         /\ shut' = [shut EXCEPT ![r] = o]
         /\ ret' = [ret EXCEPT ![r] = ShutdownResult(o)]
    /\ connClosed' = [connClosed EXCEPT ![r] = TRUE]
    /\ pc' = [pc EXCEPT ![r] = "returned"]
    /\ UNCHANGED <<Secret, validated, slot, closeCalls, stores, hdr, loaded,
                   hijacked, nextCalls, proxied>>
    /\ UNCHANGED <<drains, nextRes, dead, fwdRes, loadedActive, bufVars>>

\* acceptProxy lines 106-115: h2conn.Shutdown(ctx) under the shutdownTimeout
\* context returns (completed once no stream is open, connection already
\* closed, deadline exceeded or another error), the call returns and the
\* deferred close runs.
RegShutdown(r) ==
    /\ pc[r] = "shutdown"
    /\ \E o \in ShutdownReturns(drains[r]) :
         /\ o = "ok" => OpenStreams(r) = {}
         /\ shut' = [shut EXCEPT ![r] = o]
         /\ ret' = [ret EXCEPT ![r] = ShutdownResult(o)]
    /\ connClosed' = DeferredClose(r)
    /\ pc' = [pc EXCEPT ![r] = "returned"]
    /\ UNCHANGED <<Secret, validated, slot, closeCalls, stores, hdr, loaded,
                   hijacked, nextCalls, proxied>>
    /\ UNCHANGED <<drains, nextRes, dead, fwdRes, loadedActive, bufVars>>

\* ServeHTTP line 122: m.handler.Load() of a request that is no registration.
FwdLoad(r) ==
    /\ pc[r] = "fwdLoad"
    /\ loaded' = [loaded EXCEPT ![r] = slot]
    /\ pc' = [pc EXCEPT ![r] = IF slot # None THEN "proxy" ELSE "next"]
    /\ loadedActive' = [loadedActive EXCEPT ![r] = slot # None /\ closeCalls[slot] = 0]
    /\ UNCHANGED <<Secret, validated, slot, closeCalls, stores, hdr, hijacked,
                   connClosed, shut, ret, nextCalls, proxied>>
    /\ UNCHANGED <<drains, nextRes, dead, fwdRes, bufVars>>

\* The transport of handler h takes a new stream: its Shutdown has not been
\* entered and its connection has neither failed nor been closed.
Usable(h) == pc[h] = "wait" /\ ~dead[h] /\ ~connClosed[h]

\* A stream open on handler h's transport can still complete: the connection
\* has neither failed nor been closed.
Alive(h) == ~dead[h] /\ ~connClosed[h]

\* The connection of a stored handler's transport fails while its registering
\* call waits at line 105; nothing in acceptProxy observes it.
ConnDies(h) ==
    /\ pc[h] = "wait"
    /\ ~dead[h]
    /\ dead' = [dead EXCEPT ![h] = TRUE]
    /\ UNCHANGED <<Secret, validated, slot, closeCalls, stores, pc, hdr, loaded,
                   hijacked, connClosed, shut, ret, nextCalls, proxied>>
    /\ UNCHANGED <<drains, nextRes, fwdRes, loadedActive, bufVars>>

\* ServeHTTP line 123, first half: handler.proxy.ServeHTTP(w, r) starts the
\* round trip on the loaded handler's transport. A transport that takes no
\* new stream refuses it: the proxy answers with an error status and
\* ServeHTTP returns nil (lines 124-125).
FwdOpen(r) ==
    /\ pc[r] = "proxy"
    /\ IF Usable(loaded[r])
       THEN /\ pc' = [pc EXCEPT ![r] = "stream"]
            /\ UNCHANGED <<proxied, loaded, ret, fwdRes>>
       ELSE /\ pc' = [pc EXCEPT ![r] = "returned"]
            /\ proxied' = [proxied EXCEPT ![r] = loaded[r]]
            /\ loaded' = [loaded EXCEPT ![r] = None]
            /\ ret' = [ret EXCEPT ![r] = "nil"]
            /\ fwdRes' = [fwdRes EXCEPT ![r] = "refused"]
    /\ UNCHANGED <<Secret, validated, slot, closeCalls, stores, hdr,
                   hijacked, connClosed, shut, nextCalls>>
    /\ UNCHANGED <<drains, nextRes, dead, loadedActive, bufVars>>

\* ServeHTTP lines 123-125: handler.proxy.ServeHTTP(w, r) comes back, with
\* the exchange relayed, failed on the stream, or cut by the end of the
\* connection; return nil. The loaded handler goes out of scope.
FwdProxy(r) ==
    /\ pc[r] = "stream"
    /\ \E res \in (IF Alive(loaded[r]) THEN {"ok", "error"} ELSE {"aborted"}) :
         fwdRes' = [fwdRes EXCEPT ![r] = res]
    /\ proxied' = [proxied EXCEPT ![r] = loaded[r]]
    /\ loaded' = [loaded EXCEPT ![r] = None]
    /\ ret' = [ret EXCEPT ![r] = "nil"]
    /\ pc' = [pc EXCEPT ![r] = "returned"]
    /\ UNCHANGED <<Secret, validated, slot, closeCalls, stores, hdr,
                   hijacked, connClosed, shut, nextCalls>>
    /\ UNCHANGED <<drains, nextRes, dead, loadedActive, bufVars>>

\* Variant of FwdNext that drops the next handler's error.
FwdNextSwallow(r) ==
    /\ pc[r] = "next"
    /\ \E res \in NextResults :
         nextRes' = [nextRes EXCEPT ![r] = res]
    /\ ret' = [ret EXCEPT ![r] = "nil"]
    /\ nextCalls' = [nextCalls EXCEPT ![r] = @ + 1]
    /\ pc' = [pc EXCEPT ![r] = "returned"]
    /\ UNCHANGED <<Secret, validated, slot, closeCalls, stores, hdr, loaded,
                   hijacked, connClosed, shut, proxied>>
    /\ UNCHANGED <<drains, dead, fwdRes, loadedActive, bufVars>>

\* ServeHTTP line 126: return next.ServeHTTP(w, r).
FwdNext(r) ==
    /\ pc[r] = "next"
    /\ \E res \in NextResults :
         /\ nextRes' = [nextRes EXCEPT ![r] = res]
         /\ ret' = [ret EXCEPT ![r] = res]
    /\ nextCalls' = [nextCalls EXCEPT ![r] = @ + 1]
    /\ pc' = [pc EXCEPT ![r] = "returned"]
    /\ UNCHANGED <<Secret, validated, slot, closeCalls, stores, hdr, loaded,
                   hijacked, connClosed, shut, proxied>>
    /\ UNCHANGED <<drains, dead, fwdRes, loadedActive, bufVars>>

\* ------------------------------------------------------- specifications
InitReq ==
    /\ validated = "pending"
    /\ slot = None
    /\ closeCalls = [h \in Handlers |-> 0]
    /\ stores = <<>>
    /\ pc = [r \in Reqs |-> "idle"]
    /\ hdr = [r \in Reqs |-> ""]
    /\ loaded = [r \in Reqs |-> None]
    /\ hijacked = [r \in Reqs |-> FALSE]
    /\ connClosed = [r \in Reqs |-> FALSE]
    /\ shut = [r \in Reqs |-> "none"]
    /\ ret = [r \in Reqs |-> "pending"]
    /\ nextCalls = [r \in Reqs |-> 0]
    /\ proxied = [r \in Reqs |-> None]
    /\ nextRes = [r \in Reqs |-> "none"]
    /\ drains = [r \in Reqs |-> TRUE]
    /\ dead = [h \in Handlers |-> FALSE]
    /\ fwdRes = [r \in Reqs |-> "none"]
    /\ loadedActive = [r \in Reqs |-> FALSE]

InitBuf(B, S) ==
    /\ input = [B |-> B, S |-> S]
    /\ bc = WrapConn(B, S)
    /\ out = <<>>
    /\ lastRead = [src |-> "none", n |-> 0, asked |-> 0, directBefore |-> FALSE]

Init ==
    /\ Secret \in Secrets
    /\ InitReq
    /\ InitBuf(<<>>, <<>>)

\* The steps of request r once it has arrived.
Step(r) ==
    \/ RegEnableFullDuplex(r)
    \/ RegHijack(r)
    \/ RegFlush(r)
    \/ RegNewClientConn(r)
    \/ RegLoad(r)
    \/ RegClose(r)
    \/ RegStore(r)
    \/ RegWait(r)
    \/ RegShutdown(r)
    \/ FwdLoad(r)
    \/ FwdOpen(r)
    \/ FwdProxy(r)
    \/ FwdNext(r)

Next ==
    \/ ValidateConfig
    \/ \E h \in Handlers : ConnDies(h)
    \/ \E r \in Reqs : ServeHTTP(r)
    \/ \E r \in Reqs : Step(r)

Spec == Init /\ [][Next]_vars

\* Every arrived request's goroutine keeps being scheduled; arrivals are not
\* forced.
FairNext ==
    \/ ValidateConfig
    \/ \E h \in Handlers : ConnDies(h)
    \/ \E r \in 1..NumFair : ServeHTTP(r)
    \/ \E r \in Reqs : Step(r)

FairSpec == Init /\ [][FairNext]_vars /\ \A r \in Reqs : WF_vars(Step(r))

\* Registrations performed one after another: a registration runs lines
\* 90-95 only while no other registration is between its Load and its Store.
InWindow(r) == pc[r] \in {"close", "store"}

SeqRegLoad(r) ==
    /\ \A q \in Reqs : ~InWindow(q)
    /\ RegLoad(r)

SeqStep(r) ==
    \/ RegEnableFullDuplex(r)
    \/ RegHijack(r)
    \/ RegFlush(r)
    \/ RegNewClientConn(r)
    \/ SeqRegLoad(r)
    \/ RegClose(r)
    \/ RegStore(r)
    \/ RegWait(r)
    \/ RegShutdown(r)
    \/ FwdLoad(r)
    \/ FwdOpen(r)
    \/ FwdProxy(r)
    \/ FwdNext(r)

NextSeq ==
    \/ ValidateConfig
    \/ \E h \in Handlers : ConnDies(h)
    \/ \E r \in Reqs : ServeHTTP(r)
    \/ \E r \in Reqs : SeqStep(r)

SeqSpec == Init /\ [][NextSeq]_vars

\* bufConn alone: every carried-over buffer B and stream S, every read size.
InitRead ==
    /\ Secret = "s"
    /\ InitReq
    /\ \E B \in SeqsUpTo(Bytes, MaxLen) : \E S \in SeqsUpTo(Bytes, MaxLen) :
         InitBuf(B, S)

NextRead == \E n \in 0..(MaxLen + 1) : Read(n)

ReadSpec == InitRead /\ [][NextRead]_vars

\* ---------------------------------------------------------------- claims
\* The handlers whose Store took effect.
Stored == {stores[i] : i \in 1..Len(stores)}

\* The handlers stored and later overwritten by another registration's Store.
Overwritten == {stores[i] : i \in 1..(Len(stores) - 1)}

SetupPcs == {"duplex", "hijack", "flush", "newconn"}
FwdPcs == {"fwdLoad", "proxy", "stream", "next", "returned"}

\* C1: after N registrations performed one after another, once the last
\* Store has taken effect the slot holds the N-th handler, whose done channel
\* is open, and each of the N-1 earlier handlers was closed exactly once.
C1_LastIsCurrent ==
    (stores # <<>> /\ \A q \in Reqs : ~InWindow(q)) =>
        /\ slot = stores[Len(stores)]
        /\ closeCalls[stores[Len(stores)]] = 0
        /\ \A i \in 1..(Len(stores) - 1) : closeCalls[stores[i]] = 1
        /\ \A i, j \in 1..Len(stores) : stores[i] = stores[j] => i = j

C1_Witness ==
    /\ Len(stores) >= 3
    /\ \A q \in Reqs : ~InWindow(q)
    /\ closeCalls[stores[1]] = 1
    /\ closeCalls[stores[2]] = 1

\* C2: under every interleaving of concurrent registrations no handler's
\* done channel is closed a second time, and no registering call panics.
C2_NoDoubleClose ==
    /\ \A h \in Handlers : closeCalls[h] <= 1
    /\ \A r \in Reqs : pc[r] # "panicked"

\* C3: the handler a Load of the slot returns has not had its retirement
\* signal fired.
C3_SlotNotSignaled == slot # None => closeCalls[slot] = 0

\* C4: under weak fairness every handler that was stored and later
\* overwritten eventually has its done channel closed and its registering
\* call returns.
C4_DisplacedReturns ==
    \A h \in Handlers :
        (h \in Overwritten) ~> (closeCalls[h] >= 1 /\ pc[h] = "returned")

\* C5: a step of a registration that is still in its setup (full duplex,
\* hijack, flush, transport construction), in particular the step on which
\* the setup fails, changes neither the slot nor any handler's signal.
C5_SetupFailureKeepsSlot ==
    [][\A r \in Reqs :
          (pc[r] \in SetupPcs /\ pc'[r] # pc[r]) =>
              (slot' = slot /\ closeCalls' = closeCalls /\ stores' = stores)]_vars

C5_Witness ==
    \E r \in Reqs :
        /\ ret[r] = "errInit"
        /\ pc[r] = "returned"
        /\ slot # None
        /\ slot # r
        /\ closeCalls[slot] = 0

\* C6: a request without the matching credential whose Load finds the slot
\* never populated is delegated to the next handler exactly once, returns
\* what the next handler returned, is never proxied, is always able to take
\* its next step and never reaches a position of the registering call.
C6_EmptySlotDelegates ==
    \A r \in Reqs :
        (pc[r] # "idle" /\ ~IsRegistration(hdr[r])) =>
            /\ pc[r] \in FwdPcs
            /\ (pc[r] \in {"fwdLoad", "next"}) => ENABLED Step(r)
            /\ (pc[r] = "fwdLoad" /\ stores = <<>>) => ENABLED FwdLoad(r)
            /\ (pc[r] = "returned" /\ (stores = <<>> \/ proxied[r] = None)) =>
                   /\ nextCalls[r] = 1
                   /\ ret[r] = nextRes[r]
                   /\ nextRes[r] \in NextResults
                   /\ proxied[r] = None

C6_Witness ==
    \E r \in Reqs :
        /\ pc[r] = "returned"
        /\ ~IsRegistration(hdr[r])
        /\ stores = <<>>
        /\ nextCalls[r] = 1
        /\ ret[r] = "errNext"

\* C7 as stated: a request whose credential differs from the secret is never
\* hijacked and always ends in the next handler, whatever the slot holds.
C7_AlwaysNext ==
    \A r \in Reqs :
        (pc[r] = "returned" /\ hdr[r] # Secret) =>
            (~hijacked[r] /\ nextCalls[r] = 1)

\* C7 as amended: a request whose credential differs from the secret is never
\* hijacked and never enters the registering call; it ends in the next
\* handler when its Load found the slot empty and in the loaded handler's
\* proxy, without a call of the next handler, when the slot was populated.
C7_NonMatchingNeverRegisters ==
    \A r \in Reqs :
        (pc[r] # "idle" /\ hdr[r] # Secret) =>
            /\ ~hijacked[r]
            /\ ~connClosed[r]
            /\ pc[r] \in FwdPcs
            /\ pc[r] = "proxy" => (loaded[r] # None /\ nextCalls[r] = 0)
            /\ pc[r] = "next" => (loaded[r] = None /\ proxied[r] = None)
            /\ pc[r] = "returned" =>
                   \/ nextCalls[r] = 1 /\ proxied[r] = None
                   \/ nextCalls[r] = 0 /\ proxied[r] \in Stored

C7_Witness ==
    \E r \in Reqs :
        /\ pc[r] = "returned"
        /\ hdr[r] = "x"
        /\ proxied[r] # None
        /\ nextCalls[r] = 0

\* C8: the bytes the Reads have returned are a prefix of B followed by S and
\* what is left to read is the rest; no Read touches the stream while
\* buffered bytes remain, none returns bytes of both, each returns at most
\* what was asked, and once B is exhausted the Reads go to the connection.
C8_BufferedBytesFirst ==
    LET all == input.B \o input.S IN
    /\ Len(out) <= Len(all)
    /\ out = SubSeq(all, 1, Len(out))
    /\ out \o bc.buffered \o bc.conn = all
    /\ Len(bc.buffered) > 0 => bc.conn = input.S
    /\ lastRead.src = "buf" => bc.conn = input.S
    /\ lastRead.src = "conn" => bc.buffered = <<>>
    /\ lastRead.n <= lastRead.asked
    /\ bc.readerNil => bc.buffered = <<>>
    /\ lastRead.directBefore => lastRead.src = "conn"

C8_Witness ==
    /\ Len(input.B) = MaxLen
    /\ Len(input.S) > 0
    /\ lastRead.src = "conn"
    /\ lastRead.n > 0
    /\ bc.readerNil
    /\ out = input.B \o input.S

\* C9: once a handler's retirement signal has fired its registering call
\* eventually returns with the connection closed, and a shutdown that ran
\* into the deadline has ended with the call returned and the connection
\* closed.
C9_RetiredEventuallyClosed ==
    /\ \A h \in Handlers :
           (closeCalls[h] >= 1) ~> (pc[h] = "returned" /\ connClosed[h])
    /\ [](\A r \in Reqs :
              shut[r] = "timeout" => (pc[r] = "returned" /\ connClosed[r]))

C9_Witness ==
    \E r \in Reqs :
        /\ closeCalls[r] = 1
        /\ ~drains[r]
        /\ shut[r] = "timeout"
        /\ pc[r] = "returned"
        /\ connClosed[r]

\* C10: a registering call that has left acceptProxy after a successful
\* hijack has closed the connection, and a call whose handler is stored and
\* not yet signaled is waiting with the connection open.
C10_ClosedOnEveryReturn ==
    \A r \in Reqs :
        /\ (pc[r] \in {"returned", "panicked"} /\ hijacked[r]) => connClosed[r]
        /\ (r \in Stored /\ closeCalls[r] = 0) =>
               (pc[r] = "wait" /\ ~connClosed[r] /\ ret[r] = "pending")
        /\ connClosed[r] => pc[r] \in {"returned", "panicked"}

C10_Witness ==
    \E r, q \in Reqs :
        /\ pc[r] = "returned" /\ shut[r] = "timeout" /\ connClosed[r]
        /\ pc[q] = "returned" /\ ret[q] = "errFlush" /\ connClosed[q]

\* C11: a registering call whose Shutdown has come back returns nil when the
\* shutdown completed or failed on an already closed connection and a
\* shutdown error otherwise; the step that reports it changes neither the
\* slot, nor any handler's signal, nor any other call's result.
C11_ShutdownResult ==
    /\ [](\A r \in Reqs :
              shut[r] # "none" =>
                  /\ pc[r] = "returned"
                  /\ ret[r] = IF shut[r] \in {"ok", "errClosed"}
                              THEN "nil" ELSE "errShutdown")
    /\ [][\A r \in Reqs :
              shut'[r] # shut[r] =>
                  /\ slot' = slot
                  /\ closeCalls' = closeCalls
                  /\ stores' = stores
                  /\ \A q \in Reqs \ {r} : ret'[q] = ret[q] /\ pc'[q] = pc[q]]_vars

C11_Witness ==
    \E r, q \in Reqs :
        /\ shut[r] = "errOther" /\ ret[r] = "errShutdown"
        /\ shut[q] = "errClosed" /\ ret[q] = "nil"
        /\ slot \notin {None, r, q}
        /\ closeCalls[slot] = 0

\* C14: Validate fails exactly when the secret is empty, and once it has
\* passed a request with an empty or absent credential header is never
\* hijacked and never at a position of the registering call.
C14_EmptyHeaderNeverRegisters ==
    /\ validated # "pending" => (validated = "error" <=> Secret = "")
    /\ \A r \in Reqs :
           pc[r] # "idle" =>
               /\ validated = "ok"
               /\ Secret # ""
               /\ hdr[r] = "" =>
                      (pc[r] \in FwdPcs /\ ~hijacked[r] /\ r \notin Stored)

C14_Witness ==
    \E r \in Reqs :
        /\ validated = "ok"
        /\ hdr[r] = ""
        /\ pc[r] = "returned"
        /\ stores # <<>>

\* C12: a forward that ends, in error or not, leaves the slot unchanged, and
\* while the handler in the slot has a dead connection the Load of a request
\* that is no registration finds no transport, so the request goes to the
\* next handler.
C12_DeadFailsClosed ==
    [][/\ \A r \in Reqs : fwdRes'[r] # fwdRes[r] => slot' = slot
       /\ \A r \in Reqs :
              (pc[r] = "fwdLoad" /\ pc'[r] # "fwdLoad" /\ slot # None /\ dead[slot])
                  => pc'[r] = "next"]_vars

\* C13: a forward over a handler it loaded before that handler was signaled
\* is neither refused nor cut short unless the handler's shutdown ran into
\* the deadline or its connection failed.
C13_CapturedForwardFinishes ==
    \A r \in Reqs :
        (fwdRes[r] \in {"refused", "aborted"} /\ loadedActive[r]) =>
            \/ dead[proxied[r]]
            \/ shut[proxied[r]] \in {"timeout", "errClosed", "errOther"}

\* C15: a handler is signaled only after it was stored and never by a step
\* of its own registering call; its call is in Shutdown only after the
\* signal; the call moves from the wait to the shutdown to the return and
\* stays there; and a handler whose call has returned is neither stored
\* into the slot nor signaled again.
C15_LifecycleOrder ==
    /\ [](\A h \in Handlers :
              /\ closeCalls[h] >= 1 => h \in Stored
              /\ (pc[h] = "shutdown" \/ shut[h] # "none") => closeCalls[h] >= 1
              /\ h \in Stored => pc[h] \in {"wait", "shutdown", "returned"})
    /\ [][\A h \in Handlers :
              /\ closeCalls'[h] # closeCalls[h] => pc'[h] = pc[h]
              /\ pc[h] = "wait" => pc'[h] \in {"wait", "shutdown"}
              /\ pc[h] = "shutdown" => pc'[h] \in {"shutdown", "returned"}
              /\ pc[h] = "returned" =>
                     /\ pc'[h] = "returned"
                     /\ closeCalls'[h] = closeCalls[h]
                     /\ slot # h => slot' # h]_vars

RegPcs == {"duplex", "hijack", "flush", "newconn", "load", "close", "store",
           "wait", "shutdown", "returned", "panicked"}

\* C16: a request with the matching credential stays in the registering call
\* and is never proxied nor passed to the next handler, whatever becomes of
\* its promotion; any other request stays out of it and ends in exactly one
\* of the proxy and the next handler, as the slot was at its one Load; the
\* next handler is called at most once and only after a Load that found the
\* slot empty.
C16_OnePath ==
    /\ [](\A r \in Reqs :
              pc[r] # "idle" =>
                  /\ hdr[r] = Secret =>
                         /\ pc[r] \in RegPcs
                         /\ nextCalls[r] = 0 /\ nextRes[r] = "none"
                         /\ proxied[r] = None /\ fwdRes[r] = "none"
                  /\ hdr[r] # Secret => (pc[r] \in FwdPcs /\ ~hijacked[r])
                  /\ nextCalls[r] <= 1
                  /\ nextCalls[r] = 1 => (proxied[r] = None /\ fwdRes[r] = "none")
                  /\ pc[r] = "next" => loaded[r] = None
                  /\ (pc[r] = "returned" /\ hdr[r] # Secret) =>
                         ((nextCalls[r] = 1) # (proxied[r] # None)))
    /\ [][\A r \in Reqs :
              /\ (pc[r] = "fwdLoad" /\ pc'[r] # "fwdLoad") =>
                     /\ loaded'[r] = slot
                     /\ pc'[r] = IF slot = None THEN "next" ELSE "proxy"
              /\ pc[r] \in {"proxy", "stream"} => loaded'[r] \in {loaded[r], None}
              /\ proxied'[r] # proxied[r] => proxied'[r] = loaded[r]
              /\ nextCalls'[r] # nextCalls[r] => pc[r] = "next"]_vars

C16_Witness ==
    \E a, b \in Reqs :
        /\ hdr[a] = Secret /\ ret[a] = "errInit" /\ pc[a] = "returned"
        /\ nextCalls[a] = 0 /\ proxied[a] = None
        /\ hdr[b] # Secret /\ pc[b] = "returned"
        /\ proxied[b] # None /\ fwdRes[b] = "ok" /\ nextCalls[b] = 0

====
